---- MODULE Spec2Model ----
(***************************************************************************)
(* Model of search_mp3_files (tools.py, and the manifest-writing variant   *)
(* in main.py) of the AI-DJ repository.  Text is modelled as sequences of  *)
(* one-character strings, so that slicing, prefix tests, stripping and     *)
(* substring matching are computed the way the Python code computes them.  *)
(***************************************************************************)
EXTENDS Integers, Sequences, FiniteSets, TLC

VARIABLES
    input,          \* the query argument the function was called with
    now,            \* datetime.now() formatted %Y%m%d_%H%M%S
    rootKind,       \* what music_dir is on disk: "missing", "file", "dir"
    desktop,        \* the .mp3 files under music_dir, in glob discovery order
    variant,        \* which copy of the routine runs: "tools" or "main"
    writeOk,        \* whether writing the .m3u manifest succeeds (main.py)
    pc,             \* "called" before the call runs, "returned" after
    query,          \* local variable query (reassigned by the wrapper strip)
    search_terms,   \* local variable search_terms after parsing
    playlist_name,  \* local variable playlist_name after parsing
    all_mp3_files,  \* local variable all_mp3_files (glob result)
    uncapped,       \* local variable mp3_files just before the cap is applied
    mp3_files,      \* local variable mp3_files after filter, sort, cap
    response,       \* the returned report, as a sequence of line records
    manifest,       \* the .m3u files the call tried to write (main.py)
    ui_pc,          \* where chat_with_agent_stream stands ("idle": not running)
    ui_report,      \* the report search_mp3_files has for the message
    yielded,        \* the responses chat_with_agent_stream has yielded
    trail           \* the collaborator calls it has made, with their outcome

vars == <<input, now, rootKind, desktop, variant, writeOk, pc, query, search_terms,
          playlist_name, all_mp3_files, uncapped, mp3_files, response, manifest,
          ui_pc, ui_report, yielded, trail>>

----------------------------------------------------------------------------
(* Python string primitives *)

Whitespace == {" ", "\t"}

QuoteChars == {"'", "\""}

UpperChars == <<"A","B","C","D","E","F","G","H","I","J","K","L","M",
                "N","O","P","Q","R","S","T","U","V","W","X","Y","Z">>

LowerChars == <<"a","b","c","d","e","f","g","h","i","j","k","l","m",
                "n","o","p","q","r","s","t","u","v","w","x","y","z">>

\* str.lower() on one character
LowerChar(c) ==
    IF \E i \in 1..Len(UpperChars) : UpperChars[i] = c
    THEN LowerChars[CHOOSE i \in 1..Len(UpperChars) : UpperChars[i] = c]
    ELSE c

\* str.lower()
Lower(s) == [i \in 1..Len(s) |-> LowerChar(s[i])]

\* s[i:j] with 0-based i, j already clamped by the caller's arithmetic
Slice(s, i, j) == SubSeq(s, i + 1, j)

\* s[i:]
SliceFrom(s, i) == SubSeq(s, i + 1, Len(s))

\* s.startswith(p)
StartsWith(s, p) == Len(p) <= Len(s) /\ SubSeq(s, 1, Len(p)) = p

\* sub in s
Contains(sub, s) ==
    \E i \in 0..(Len(s) - Len(sub)) : SubSeq(s, i + 1, i + Len(sub)) = sub

\* s.find(c) for a one-character c: 0-based index of the first c, -1 if none
Find(s, c) ==
    IF \E i \in 1..Len(s) : s[i] = c
    THEN (CHOOSE i \in 1..Len(s) : s[i] = c /\ \A j \in 1..(i-1) : s[j] # c) - 1
    ELSE -1

\* s.rfind(c): 0-based index of the last c, -1 if none
RFind(s, c) ==
    IF \E i \in 1..Len(s) : s[i] = c
    THEN (CHOOSE i \in 1..Len(s) : s[i] = c /\ \A j \in (i+1)..Len(s) : s[j] # c) - 1
    ELSE -1

\* s.strip(chars): drop leading and trailing characters that are in chars
StripChars(s, chars) ==
    LET keep == {i \in 1..Len(s) : s[i] \notin chars}
    IN  IF keep = {} THEN <<>>
        ELSE LET lo == CHOOSE i \in keep : \A j \in keep : i <= j
                 hi == CHOOSE i \in keep : \A j \in keep : j <= i
             IN  SubSeq(s, lo, hi)

\* s.strip()
Strip(s) == StripChars(s, Whitespace)

RECURSIVE SplitOn(_, _)
\* s.split(sep) for a one-character sep: always at least one part
SplitOn(s, sep) ==
    LET k == Find(s, sep)
    IN  IF k = -1 THEN <<s>>
        ELSE <<Slice(s, 0, k)>> \o SplitOn(SliceFrom(s, k + 1), sep)

RECURSIVE SplitWords(_)
\* s.split(): maximal runs of non-whitespace characters
SplitWords(s) ==
    LET t == Strip(s)
    IN  IF t = <<>> THEN <<>>
        ELSE LET ws == {i \in 1..Len(t) : t[i] \in Whitespace}
                 e  == IF ws = {} THEN Len(t)
                       ELSE (CHOOSE i \in ws : \A j \in ws : i <= j) - 1
             IN  <<SubSeq(t, 1, e)>> \o SplitWords(SubSeq(t, e + 1, Len(t)))

----------------------------------------------------------------------------
(* Literals of the parser *)

SearchPrefix == <<"s","e","a","r","c","h",":">>

PlaylistPrefix == <<"p","l","a","y","l","i","s","t",":">>

ToolOpen == <<"M","P","3","S","e","a","r","c","h","(">>

PlaylistStem == <<"P","l","a","y","l","i","s","t","_">>

\* playlist_name = f"Playlist_{datetime.now().strftime('%Y%m%d_%H%M%S')}"
DefaultPlaylistName(ts) == PlaylistStem \o ts

----------------------------------------------------------------------------
(* Query parsing, tools.py *)

\* variant of CleanQuery that forgets .strip("'\"")
CleanQueryKeepQuotes(q) ==
    IF Contains(ToolOpen, q) /\ Contains(<<")">>, q)
    THEN LET start_idx == Find(q, "(") + 1
             end_idx   == RFind(q, ")")
         IN  IF start_idx > 0 /\ end_idx > start_idx
             THEN Slice(q, start_idx, end_idx)
             ELSE q
    ELSE q

\* the tool-name clean-up: query[start_idx:end_idx].strip("'\"")
CleanQuery(q) ==
    IF Contains(ToolOpen, q) /\ Contains(<<")">>, q)
    THEN LET start_idx == Find(q, "(") + 1
             end_idx   == RFind(q, ")")
         IN  IF start_idx > 0 /\ end_idx > start_idx
             THEN StripChars(Slice(q, start_idx, end_idx), QuoteChars)
             ELSE q
    ELSE q

\* one iteration of "for part in parts" over the parse state st
ParsePart(st, rawpart, q) ==
    LET part == Strip(rawpart)
    IN  IF StartsWith(Lower(part), SearchPrefix)
        THEN [st EXCEPT !.search_terms = Strip(SliceFrom(part, 7))]
        ELSE IF StartsWith(Lower(part), PlaylistPrefix)
        THEN [st EXCEPT !.playlist_name = Strip(SliceFrom(part, 9))]
        ELSE IF ~Contains(PlaylistPrefix, q) /\ ~Contains(SearchPrefix, part)
        THEN IF st.search_terms = <<>>
             THEN [st EXCEPT !.search_terms = part]
             ELSE st
        ELSE st

RECURSIVE ParseParts(_, _, _)
\* the whole "for part in parts" loop
ParseParts(st, parts, q) ==
    IF parts = <<>> THEN st
    ELSE ParseParts(ParsePart(st, Head(parts), q), Tail(parts), q)

\* variant of StripSearchPrefix that forgets .lower()
StripSearchPrefixCaseSensitive(t) ==
    IF StartsWith(t, SearchPrefix) THEN Strip(SliceFrom(t, 7)) ELSE t

\* the final "search:" prefix removal
StripSearchPrefix(t) ==
    IF StartsWith(Lower(t), SearchPrefix) THEN Strip(SliceFrom(t, 7)) ELSE t

\* parsing of the (already cleaned) query q at time ts
ParseQuery(q, ts) ==
    LET st0 == [search_terms |-> <<>>, playlist_name |-> DefaultPlaylistName(ts)]
        st1 == IF Contains(<<"|">>, q)
               THEN ParseParts(st0, SplitOn(q, "|"), q)
               ELSE [st0 EXCEPT !.search_terms = Strip(q)]
    IN  [st1 EXCEPT !.search_terms = StripSearchPrefix(st1.search_terms)]

----------------------------------------------------------------------------
(* Files and ID3 tags.  A file is [path, name, tag]: path stands for the   *)
(* full path glob returns (unique per file), name for os.path.basename,    *)
(* tag for what mutagen's ID3(path) finds in the file.                     *)

Unknown == "Unknown"

\* a text frame that is not in the tag
Absent == [present |-> FALSE, text |-> <<>>]

\* a text frame with the given text list (possibly empty)
Frame(text) == [present |-> TRUE, text |-> text]

\* the try block around ID3(file_path): bpm and genre as they stand when
\* the block is left, normally or by an exception
ReadTags(tag) ==
    IF ~tag.opens
    THEN [bpm |-> Unknown, genre |-> Unknown]
    ELSE IF tag.TBPM.present /\ tag.TBPM.text = <<>>
    THEN [bpm |-> Unknown, genre |-> Unknown]
    ELSE LET bpm == IF tag.TBPM.present THEN tag.TBPM.text[1] ELSE Unknown
         IN  IF tag.TCON.present /\ tag.TCON.text = <<>>
             THEN [bpm |-> bpm, genre |-> Unknown]
             ELSE [bpm |-> bpm,
                   genre |-> IF tag.TCON.present THEN tag.TCON.text[1] ELSE Unknown]

\* os.path.exists(music_dir)
PathExists(kind) == kind # "missing"

\* glob.glob(os.path.join(music_dir, "**", "*.mp3"), recursive=True):
\* nothing is found under a path that is not a directory
GlobMp3(kind, files) == IF kind = "dir" THEN files ELSE <<>>

----------------------------------------------------------------------------
(* Filtering and ranking, tools.py *)

\* the result cap of mp3_files[:20]
MaxResults == 20

\* s[:n] for a list
Take(s, n) == SubSeq(s, 1, IF Len(s) < n THEN Len(s) ELSE n)

\* search_words = [word.lower() for word in search_terms.split() if word]
SearchWords(terms) ==
    LET ws == SplitWords(terms) IN [i \in 1..Len(ws) |-> Lower(ws[i])]

\* variant of MatchesAny with all() in place of any()
MatchesAll(f, words) ==
    \A i \in 1..Len(words) : Contains(words[i], Lower(f.name))

\* any(word in file_name for word in search_words)
MatchesAny(f, words) ==
    \E i \in 1..Len(words) : Contains(words[i], Lower(f.name))

\* relevance_score: sum(1 for word in search_words if word in file_name)
relevance_score(f, words) ==
    Cardinality({i \in 1..Len(words) : Contains(words[i], Lower(f.name))})

\* variant of InsertByScore for a sort without reverse=True
InsertByScoreAscending(sorted, x, words) ==
    LET ahead == {i \in 1..Len(sorted) :
                     relevance_score(sorted[i], words) <= relevance_score(x, words)}
        k == Cardinality(ahead)
    IN  SubSeq(sorted, 1, k) \o <<x>> \o SubSeq(sorted, k + 1, Len(sorted))

\* place x in a list already sorted by score descending, behind every
\* element whose score is not smaller (keeps equal elements in arrival order)
InsertByScore(sorted, x, words) ==
    LET ahead == {i \in 1..Len(sorted) :
                     relevance_score(sorted[i], words) >= relevance_score(x, words)}
        k == Cardinality(ahead)
    IN  SubSeq(sorted, 1, k) \o <<x>> \o SubSeq(sorted, k + 1, Len(sorted))

RECURSIVE SortByRelevance(_, _, _)
\* mp3_files.sort(key=relevance_score, reverse=True): a stable sort
SortByRelevance(done, rest, words) ==
    IF rest = <<>> THEN done
    ELSE SortByRelevance(InsertByScore(done, Head(rest), words), Tail(rest), words)

\* variant of Ranked without the "if not search_terms" branch
RankedNoListAll(all, terms) ==
    LET words == SearchWords(terms)
        kept  == SelectSeq(all, LAMBDA f : MatchesAny(f, words))
    IN  SortByRelevance(<<>>, kept, words)

\* the list before the final cap: the first 20 when there are no terms,
\* else the files matching any word, sorted by relevance
Ranked(all, terms) ==
    IF terms = <<>>
    THEN Take(all, MaxResults)
    ELSE LET words == SearchWords(terms)
             kept  == SelectSeq(all, LAMBDA f : MatchesAny(f, words))
         IN  SortByRelevance(<<>>, kept, words)

\* variant of Capped that keeps one file too many
CappedOffByOne(files) == Take(files, MaxResults + 1)

\* mp3_files = mp3_files[:20]
Capped(files) == Take(files, MaxResults)

----------------------------------------------------------------------------
(* The main.py copy: stricter grammar, glob-pattern matching *)

\* one iteration of the main.py "for part in parts" loop
ParsePartMain(st, rawpart) ==
    LET part == Strip(rawpart)
    IN  IF StartsWith(Lower(part), SearchPrefix)
        THEN [st EXCEPT !.search_terms = Strip(SliceFrom(part, 7))]
        ELSE IF StartsWith(Lower(part), PlaylistPrefix)
        THEN [st EXCEPT !.playlist_name = Strip(SliceFrom(part, 9))]
        ELSE st

RECURSIVE ParsePartsMain(_, _)
ParsePartsMain(st, parts) ==
    IF parts = <<>> THEN st
    ELSE ParsePartsMain(ParsePartMain(st, Head(parts)), Tail(parts))

\* parsing in main.py: no wrapper clean-up, no final prefix removal
ParseQueryMain(q, ts) ==
    LET st0 == [search_terms |-> <<>>, playlist_name |-> DefaultPlaylistName(ts)]
    IN  IF Contains(<<"|">>, q)
        THEN ParsePartsMain(st0, SplitOn(q, "|"))
        ELSE [st0 EXCEPT !.search_terms = Strip(q)]

\* search_pattern = f"*{search_terms.replace(' ', '*')}*.mp3"
SearchPattern(terms) ==
    <<"*">> \o [i \in 1..Len(terms) |-> IF terms[i] = " " THEN "*" ELSE terms[i]]
            \o <<"*", ".", "m", "p", "3">>

RECURSIVE FnMatch(_, _)
\* fnmatch of a name against a pattern whose only wildcard is "*"
FnMatch(name, pat) ==
    IF pat = <<>> THEN name = <<>>
    ELSE IF Head(pat) = "*"
    THEN FnMatch(name, Tail(pat)) \/ (name # <<>> /\ FnMatch(Tail(name), pat))
    ELSE name # <<>> /\ Head(name) = Head(pat) /\ FnMatch(Tail(name), Tail(pat))

\* glob.glob(os.path.join(music_dir, "**", search_pattern), recursive=True)
GlobPattern(kind, files, terms) ==
    IF kind = "dir"
    THEN SelectSeq(files, LAMBDA f : FnMatch(f.name, SearchPattern(terms)))
    ELSE <<>>

----------------------------------------------------------------------------
(* Rendering.  The report is the sequence of its lines; every line is a    *)
(* record of the same shape, with the fields its format string fills in.   *)

Line(kind, n, text, bpm, genre) ==
    [kind |-> kind, n |-> n, text |-> text, bpm |-> bpm, genre |-> genre]

\* "Desktop directory not found at ..." / "Music directory not found at ..."
NotFoundReport == <<Line("not_found", 0, <<>>, "", "")>>

\* "No MP3 files found matching '...'" and the hint line
NoMatchReport(terms) ==
    <<Line("no_match", 0, terms, "", ""), Line("hint", 0, <<>>, "", "")>>

\* "Found N MP3 files matching '...':" or, without terms in tools.py,
\* "Found N MP3 files:"
HeaderLine(files, terms, withTerms) ==
    Line(IF withTerms THEN "found_matching" ELSE "found", Len(files),
         IF withTerms THEN terms ELSE <<>>, "", "")

RECURSIVE TrackBlocks(_, _)
\* the enumerate(mp3_files, 1) loop: "{i}. {file_name}" and
\* "   BPM: {bpm} | Genre: {genre}" for every file from index i on
TrackBlocks(files, i) ==
    IF i > Len(files) THEN <<>>
    ELSE LET md == ReadTags(files[i].tag)
         IN  <<Line("track", i, files[i].name, "", ""),
               Line("meta", i, <<>>, md.bpm, md.genre)>>
             \o TrackBlocks(files, i + 1)

\* variant of PlaylistBlock whose enumerate() starts at 0
PlaylistBlockFromZero(files, name) ==
    <<Line("playlist", Len(files), name, "", ""), Line("separator", 0, <<>>, "", "")>>
    \o [i \in 1..Len(files) |-> Line("item", i - 1, files[i].name, "", "")]
    \o <<Line("separator", 0, <<>>, "", "")>>

\* the inline playlist listing of tools.py
PlaylistBlock(files, name) ==
    <<Line("playlist", Len(files), name, "", ""), Line("separator", 0, <<>>, "", "")>>
    \o [i \in 1..Len(files) |-> Line("item", i, files[i].name, "", "")]
    \o <<Line("separator", 0, <<>>, "", "")>>

\* the report of tools.py for a non-empty result
FoundReport(files, terms, name) ==
    <<HeaderLine(files, terms, terms # <<>>)>>
    \o TrackBlocks(files, 1) \o PlaylistBlock(files, name)

\* the attempt to write f"{playlist_name}.m3u" under music_dir: the file
\* name, the paths the loop writes after "#EXTM3U", and whether open() and
\* every write() succeeded
WriteManifest(files, name, ok) ==
    [file  |-> name \o <<".","m","3","u">>,
     paths |-> [i \in 1..Len(files) |-> files[i].path],
     ok    |-> ok]

\* variant of FoundReportMain whose except clause assigns the notice to
\* response instead of appending it
FoundReportMainNoticeOnly(files, terms, name, ok) ==
    IF ok
    THEN <<HeaderLine(files, terms, TRUE)>>
         \o TrackBlocks(files, 1)
         \o <<Line("created", Len(files), name, "", "")>>
    ELSE <<Line("write_failed", 0, <<>>, "", "")>>

\* the report of main.py for a non-empty result: the manifest write either
\* succeeds ("Created playlist") or raises and is caught ("Failed to create")
FoundReportMain(files, terms, name, ok) ==
    <<HeaderLine(files, terms, TRUE)>>
    \o TrackBlocks(files, 1)
    \o <<IF ok THEN Line("created", Len(files), name, "", "")
               ELSE Line("write_failed", 0, <<>>, "", "")>>

----------------------------------------------------------------------------
(* Inputs *)

\* longest query, counted in "|"-separated segments
MaxSegs == 2

\* longest directory listing of the ranking inputs
MaxFiles == 4

\* longest directory listing of the tag inputs
MaxTagged == 2

\* longest run of equally named files in the large directory listings
MaxRun == 11

Sp == <<" ">>

Bar == <<"|">>

\* the segments the queries are built from
Segments ==
    { <<>>,
      Sp,
      <<"a">>,
      <<" ","a"," ","b"," ">>,
      SearchPrefix \o <<" ","a">>,
      <<"S","e","a","r","c","h",":","a"," ","b">>,
      SearchPrefix \o Sp \o SearchPrefix \o <<" ","a">>,
      SearchPrefix,
      <<" ">> \o PlaylistPrefix \o <<" ","N">>,
      PlaylistPrefix,
      PlaylistPrefix \o <<" ","\t">>,
      <<"P","L","A","Y","L","I","S","T",":","N">>,
      <<"x"," ">> \o SearchPrefix \o <<" ","a">> }

RECURSIVE Joined(_)
\* the queries of exactly n segments
Joined(n) ==
    IF n = 1 THEN Segments
    ELSE {q \o Bar \o sg : q \in Joined(n - 1), sg \in Segments}

PlainQueries == UNION {Joined(n) : n \in 1..MaxSegs}

JazzPiano == <<"j","a","z","z"," ","p","i","a","n","o">>

\* what stands between the parentheses of a tool-call wrapper
WrappedBodies ==
    { <<>>,
      JazzPiano,
      <<"a"," ","b">>,
      <<"i","t","'","s">>,
      SearchPrefix \o <<" ","a">>,
      <<"a"," ">> \o Bar \o Sp \o PlaylistPrefix \o <<" ","N">> }

\* queries that wrap themselves in Name(...), with and without quotes,
\* and the texts where the parentheses do not enclose anything
WrappedQueries ==
    { nm \o <<"(">> \o lq \o body \o rq \o <<")">> :
        nm \in { <<"M","P","3","S","e","a","r","c","h">>,
                 <<"S","e","a","r","c","h">> },
        lq \in { <<>>, <<"'">>, <<"\"">> },
        rq \in { <<>>, <<"'">>, <<"\""," ">> },
        body \in WrappedBodies }
    \cup { <<")">> \o ToolOpen,
           <<"(","x",")"," ">> \o ToolOpen \o <<"'","a","'",")">>,
           SearchPrefix \o Sp \o ToolOpen \o <<"'","a","'",")">>,
           ToolOpen \o <<"'","a","'",")">> \o Bar \o PlaylistPrefix \o <<"N">> }

\* the term lists of the ranking inputs
RankQueries ==
    { <<>>,
      <<"a">>,
      <<"A">>,
      <<"a"," ","b">>,
      <<"b"," ","a">>,
      <<"a"," ","a"," ","b">>,
      <<"b"," ","a"," ","b">>,
      <<"a","b">>,
      <<"z">> }

Mp3 == <<".","m","p","3">>

NameA  == <<"a">> \o Mp3
NameB  == <<"b">> \o Mp3
NameAB == <<"A","-","b">> \o Mp3
NameX  == <<"x">> \o Mp3

NamePool == {NameA, NameB, NameAB, NameX}

\* a tag that opens and carries both frames
GoodTag == [opens |-> TRUE, TBPM |-> Frame(<<"120">>), TCON |-> Frame(<<"House">>)]

\* every state a file's tag can be in: unreadable, or readable with each
\* frame absent, present with an empty text list, or present with a value
TagStates ==
    { [opens |-> FALSE, TBPM |-> Absent, TCON |-> Absent] }
    \cup { [opens |-> TRUE, TBPM |-> b, TCON |-> g] :
             b \in {Absent, Frame(<<>>), Frame(<<"120">>)},
             g \in {Absent, Frame(<<>>), Frame(<<"House">>)} }

\* the listing with the given names and tags, paths numbered in scan order
Listing(names, tags) ==
    [i \in 1..Len(names) |-> [path |-> i, name |-> names[i], tag |-> tags[i]]]

\* n copies of x
Rep(n, x) == [i \in 1..n |-> x]

SeqsUpTo(S, n) == UNION {[1..k -> S] : k \in 0..n}

Noon == <<"2","0","2","5","1","2","0","1","_","1","2","0","0","0","0">>

\* two timestamps of the clock
Clock == { <<"2","0","2","4","0","1","3","1","_","2","3","5","9","5","9">>, Noon }

RootKinds == {"missing", "file", "dir"}

\* the copy that runs, with the outcome of main.py's manifest write
Variants == {<<"tools", TRUE>>, <<"main", TRUE>>, <<"main", FALSE>>}

\* rich queries over a small fixed directory
ParseInputs ==
    /\ input \in PlainQueries \cup WrappedQueries
    /\ desktop = Listing(<<NameB, NameAB, NameA>>, Rep(3, GoodTag))
    /\ rootKind \in RootKinds
    /\ now \in Clock

\* term lists over every short directory listing
RankInputs ==
    /\ input \in RankQueries
    /\ \E names \in SeqsUpTo(NamePool, MaxFiles) :
          desktop = Listing(names, Rep(Len(names), GoodTag))
    /\ rootKind = "dir"
    /\ now = Noon

\* every combination of tag states on a short listing
TagInputs ==
    /\ input \in {<<>>, <<"a">>}
    /\ \E tags \in SeqsUpTo(TagStates, MaxTagged) :
          desktop = Listing(Rep(Len(tags), NameA), tags)
    /\ rootKind = "dir"
    /\ now = Noon

\* the lengths a run takes: none, one, and the two longest
RunLengths == {0, 1, MaxRun - 1, MaxRun}

\* listings longer than the cap: two runs of equally named files
LargeInputs ==
    /\ input \in {<<>>, SearchPrefix \o Sp, <<"a"," ","b">>, <<"b"," ","a"," ","b">>}
    /\ \E order \in {<<NameX, NameA>>, <<NameA, NameAB>>, <<NameB, NameAB>>,
                     <<NameAB, NameA>>, <<NameA, NameB>>} :
       \E n1 \in RunLengths, n2 \in RunLengths :
          LET names == Rep(n1, order[1]) \o Rep(n2, order[2])
          IN  desktop = Listing(names, Rep(Len(names), GoodTag))
    /\ rootKind = "dir"
    /\ now = Noon

Init ==
    /\ ParseInputs \/ RankInputs \/ TagInputs \/ LargeInputs
    /\ \E v \in Variants : variant = v[1] /\ writeOk = v[2]
    /\ pc = "called"
    /\ query = input
    /\ search_terms = <<>>
    /\ playlist_name = <<>>
    /\ all_mp3_files = <<>>
    /\ uncapped = <<>>
    /\ mp3_files = <<>>
    /\ response = <<>>
    /\ manifest = <<>>
    /\ ui_pc = "idle"
    /\ ui_report = <<>>
    /\ yielded = <<>>
    /\ trail = <<>>

----------------------------------------------------------------------------
(* search_mp3_files, tools.py: one action per return path *)

\* the locals every return path has set by the time it returns
ToolsLocals(q, parsed) ==
    /\ query' = q
    /\ search_terms' = parsed.search_terms
    /\ playlist_name' = parsed.playlist_name
    /\ pc' = "returned"
    /\ UNCHANGED <<input, now, rootKind, desktop, variant, writeOk, manifest,
                   ui_pc, ui_report, yielded, trail>>

\* the early return when music_dir does not exist
SearchNotFound ==
    /\ pc = "called" /\ variant = "tools"
    /\ ~PathExists(rootKind)
    /\ LET q == CleanQuery(input)
       IN  ToolsLocals(q, ParseQuery(q, now))
    /\ response' = NotFoundReport
    /\ UNCHANGED <<all_mp3_files, uncapped, mp3_files>>

\* the return with the no-matches message
SearchNoMatch ==
    /\ pc = "called" /\ variant = "tools"
    /\ PathExists(rootKind)
    /\ LET q      == CleanQuery(input)
           parsed == ParseQuery(q, now)
           all    == GlobMp3(rootKind, desktop)
           ranked == Ranked(all, parsed.search_terms)
           found  == Capped(ranked)
       IN  /\ found = <<>>
           /\ ToolsLocals(q, parsed)
           /\ all_mp3_files' = all
           /\ uncapped' = ranked
           /\ mp3_files' = found
           /\ response' = NoMatchReport(parsed.search_terms)

\* the return with the listing and the inline playlist
SearchFound ==
    /\ pc = "called" /\ variant = "tools"
    /\ PathExists(rootKind)
    /\ LET q      == CleanQuery(input)
           parsed == ParseQuery(q, now)
           all    == GlobMp3(rootKind, desktop)
           ranked == Ranked(all, parsed.search_terms)
           found  == Capped(ranked)
       IN  /\ found # <<>>
           /\ ToolsLocals(q, parsed)
           /\ all_mp3_files' = all
           /\ uncapped' = ranked
           /\ mp3_files' = found
           /\ response' = FoundReport(found, parsed.search_terms,
                                      parsed.playlist_name)

----------------------------------------------------------------------------
(* search_mp3_files, main.py: one action per return path *)

MainLocals(parsed) ==
    /\ search_terms' = parsed.search_terms
    /\ playlist_name' = parsed.playlist_name
    /\ pc' = "returned"
    /\ UNCHANGED <<input, now, rootKind, desktop, variant, writeOk, query,
                   all_mp3_files, ui_pc, ui_report, yielded, trail>>

\* the early return when music_dir does not exist
MainNotFound ==
    /\ pc = "called" /\ variant = "main"
    /\ ~PathExists(rootKind)
    /\ MainLocals(ParseQueryMain(input, now))
    /\ response' = NotFoundReport
    /\ UNCHANGED <<uncapped, mp3_files, manifest>>

\* the return with the no-matches message
MainNoMatch ==
    /\ pc = "called" /\ variant = "main"
    /\ PathExists(rootKind)
    /\ LET parsed  == ParseQueryMain(input, now)
           globbed == GlobPattern(rootKind, desktop, parsed.search_terms)
           found   == Capped(globbed)
       IN  /\ found = <<>>
           /\ MainLocals(parsed)
           /\ uncapped' = globbed
           /\ mp3_files' = found
           /\ response' = NoMatchReport(parsed.search_terms)
           /\ UNCHANGED manifest

\* the return with the listing and the outcome of the manifest write
MainFound ==
    /\ pc = "called" /\ variant = "main"
    /\ PathExists(rootKind)
    /\ LET parsed  == ParseQueryMain(input, now)
           globbed == GlobPattern(rootKind, desktop, parsed.search_terms)
           found   == Capped(globbed)
       IN  /\ found # <<>>
           /\ MainLocals(parsed)
           /\ uncapped' = globbed
           /\ mp3_files' = found
           /\ response' = FoundReportMain(found, parsed.search_terms,
                                          parsed.playlist_name, writeOk)
           /\ manifest' = <<WriteManifest(found, parsed.playlist_name, writeOk)>>

Next ==
    \/ SearchNotFound
    \/ SearchNoMatch
    \/ SearchFound
    \/ MainNotFound
    \/ MainNoMatch
    \/ MainFound

Spec == Init /\ [][Next]_vars

----------------------------------------------------------------------------
(* chat_with_agent_stream, ui.py.  The generator makes up to five calls    *)
(* (the direct search, the agent, the search again, the fallback agent,    *)
(* the search a last time); each call either returns or raises, and the    *)
(* model takes one step per call.                                          *)

\* the words that route a message to the direct search
Keywords ==
    { <<"f","i","n","d">>, <<"s","e","a","r","c","h">>, <<"s","o","n","g">>,
      <<"m","u","s","i","c">>, <<"m","p","3">>,
      <<"p","l","a","y","l","i","s","t">> }

\* any(term in message.lower() for term in [...])
LooksLikeSearch(message) ==
    \E kw \in Keywords : Contains(kw, Lower(message))

\* what search_mp3_files of tools.py returns for the query q
ToolsReport(q, ts, kind, files) ==
    IF ~PathExists(kind) THEN NotFoundReport
    ELSE LET parsed == ParseQuery(CleanQuery(q), ts)
             found  == Capped(Ranked(GlobMp3(kind, files), parsed.search_terms))
         IN  IF found = <<>>
             THEN NoMatchReport(parsed.search_terms)
             ELSE FoundReport(found, parsed.search_terms, parsed.playlist_name)

\* result["output"] of an agent run
AgentAnswer == <<Line("answer", 0, <<>>, "", "")>>

\* the apology of the innermost except clause
SorryMessage == <<Line("sorry", 0, <<>>, "", "")>>

\* a yielded response: its text and the "[Tools used: ...]" suffix, which
\* is absent ("") when the agent used no tool
Response(body, used) == [body |-> body, used |-> used]

\* one collaborator call and whether it returned (TRUE) or raised (FALSE)
Call(who, ok) == [who |-> who, ok |-> ok]

\* variant of AfterDirectYield without the return statement
AfterDirectYieldFallsThrough == "agent"

\* where the generator stands after the yield of the direct search: the
\* return statement ends it
AfterDirectYield == "done"

\* the messages typed into the text box
Messages ==
    { <<>>,
      <<"a">>,
      JazzPiano,
      <<"f","i","n","d"," ","a">>,
      <<"M","P","3"," ","b">>,
      <<"a"," ","S","o","n","g">>,
      <<"m","u","s","i","k">>,
      SearchPrefix \o <<" ","a"," ">> \o Bar \o Sp \o PlaylistPrefix \o <<" ","N">>,
      <<"P","l","a","y"," ","l","i","s","t">> }

InitUI ==
    /\ input \in Messages
    /\ rootKind \in RootKinds
    /\ desktop = Listing(<<NameB, NameAB, NameA>>, Rep(3, GoodTag))
    /\ now = Noon
    /\ variant = "tools" /\ writeOk = TRUE
    /\ pc = "called"
    /\ query = input
    /\ search_terms = <<>>
    /\ playlist_name = <<>>
    /\ all_mp3_files = <<>>
    /\ uncapped = <<>>
    /\ mp3_files = <<>>
    /\ response = <<>>
    /\ manifest = <<>>
    /\ ui_pc = "start"
    /\ ui_report = ToolsReport(input, now, rootKind, desktop)
    /\ yielded = <<>>
    /\ trail = <<>>

\* what no step of the generator changes
UIFrame ==
    UNCHANGED <<input, now, rootKind, desktop, variant, writeOk, pc, query,
                search_terms, playlist_name, all_mp3_files, uncapped, mp3_files,
                response, manifest, ui_report>>

\* a step that makes the call who, which returns, and yields its response
UIYield(who, resp, next) ==
    /\ trail' = Append(trail, Call(who, TRUE))
    /\ yielded' = Append(yielded, resp)
    /\ ui_pc' = next
    /\ UIFrame

\* a step that makes the call who, which raises, and lands in a handler
UICatch(who, next) ==
    /\ trail' = Append(trail, Call(who, FALSE))
    /\ ui_pc' = next
    /\ UNCHANGED yielded
    /\ UIFrame

\* the keyword test that chooses between the direct search and the agent
UIRoute ==
    /\ ui_pc = "start"
    /\ ui_pc' = IF LooksLikeSearch(input) THEN "direct" ELSE "agent"
    /\ UNCHANGED <<yielded, trail>>
    /\ UIFrame

\* the direct search returns: yield its report and return
UIDirectSearchReturns ==
    /\ ui_pc = "direct"
    /\ UIYield("search",
               Response(ui_report, "MP3Search"),
               AfterDirectYield)

\* the direct search raises: pass, and go on to the agent
UIDirectSearchRaises ==
    /\ ui_pc = "direct"
    /\ UICatch("search", "agent")

\* the agent returns a well-formed result: yield the answer, with the tools
\* of its intermediate steps if there are any
UIAgentReturns ==
    /\ ui_pc = "agent"
    /\ \E used \in {"", "MP3Search"} :
          UIYield("agent", Response(AgentAnswer, used), "done")

\* the agent raises, or its result cannot be unpacked: outer except clause
UIAgentRaises ==
    /\ ui_pc = "agent"
    /\ UICatch("agent", "retry_search")

\* the search of the outer except clause returns
UIRetrySearchReturns ==
    /\ ui_pc = "retry_search"
    /\ UIYield("search",
               Response(ui_report, "MP3Search (direct call)"),
               "done")

\* the search of the outer except clause raises
UIRetrySearchRaises ==
    /\ ui_pc = "retry_search"
    /\ UICatch("search", "fallback_agent")

\* the fallback agent is created and returns
UIFallbackAgentReturns ==
    /\ ui_pc = "fallback_agent"
    /\ UIYield("fallback_agent",
               Response(AgentAnswer, "MP3Search (fallback agent)"), "done")

\* creating or running the fallback agent raises
UIFallbackAgentRaises ==
    /\ ui_pc = "fallback_agent"
    /\ UICatch("fallback_agent", "last_search")

\* the last-resort search returns
UILastSearchReturns ==
    /\ ui_pc = "last_search"
    /\ UIYield("search",
               Response(ui_report, "MP3Search (direct search)"),
               "done")

\* the last-resort search raises: yield the apology
UILastSearchRaises ==
    /\ ui_pc = "last_search"
    /\ trail' = Append(trail, Call("search", FALSE))
    /\ yielded' = Append(yielded, Response(SorryMessage, ""))
    /\ ui_pc' = "done"
    /\ UIFrame

NextUI ==
    \/ UIRoute
    \/ UIDirectSearchReturns
    \/ UIDirectSearchRaises
    \/ UIAgentReturns
    \/ UIAgentRaises
    \/ UIRetrySearchReturns
    \/ UIRetrySearchRaises
    \/ UIFallbackAgentReturns
    \/ UIFallbackAgentRaises
    \/ UILastSearchReturns
    \/ UILastSearchRaises

SpecUI == InitUI /\ [][NextUI]_vars

\* every call the generator makes returns or raises, so the generator
\* always takes its next step
SpecUIFair == SpecUI /\ WF_vars(NextUI)

----------------------------------------------------------------------------
(* Vocabulary of the properties *)

Range(f) == {f[i] : i \in DOMAIN f}

Returned == pc = "returned"

\* the words of a term string, lower-cased: the maximal runs without
\* whitespace
TermSet(terms) ==
    { Lower(SubSeq(terms, i, j)) : <<i, j>> \in
        { ij \in (1..Len(terms)) \X (1..Len(terms)) :
            /\ ij[1] <= ij[2]
            /\ \A k \in ij[1]..ij[2] : terms[k] \notin Whitespace
            /\ ij[1] = 1 \/ terms[ij[1] - 1] \in Whitespace
            /\ ij[2] = Len(terms) \/ terms[ij[2] + 1] \in Whitespace } }

\* the distinct terms a file name contains
MatchedTerms(f, terms) == {w \in TermSet(terms) : Contains(w, Lower(f.name))}

\* the lines of the report of the given kind, in report order
LinesOf(kind) == SelectSeq(response, LAMBDA ln : ln.kind = kind)

\* the position of file f in a list without repetitions
PosIn(list, f) == CHOOSE i \in 1..Len(list) : list[i] = f

----------------------------------------------------------------------------
(* C1: a query "X | playlist: Y" parses to terms X and label Y *)

\* input has the documented third shape: two segments, the first non-empty
\* and without prefix, the second "playlist:" followed by a label
ThirdShape ==
    /\ ~Contains(ToolOpen, input)
    /\ Len(SplitOn(input, "|")) = 2
    /\ LET X == Strip(SplitOn(input, "|")[1])
           P == Strip(SplitOn(input, "|")[2])
       IN  /\ X # <<>>
           /\ ~StartsWith(Lower(X), SearchPrefix)
           /\ ~StartsWith(Lower(X), PlaylistPrefix)
           /\ StartsWith(P, PlaylistPrefix)
           /\ Strip(SliceFrom(P, 9)) # <<>>

\* C1: for every query of the shape "X | playlist: Y" the tools.py parser
\* ends with search terms X (trimmed) and playlist label Y (trimmed).
C1_ThirdShapeParsed ==
    (Returned /\ variant = "tools" /\ ThirdShape) =>
        /\ search_terms = Strip(SplitOn(input, "|")[1])
        /\ playlist_name = Strip(SliceFrom(Strip(SplitOn(input, "|")[2]), 9))

----------------------------------------------------------------------------
(* C2: the playlist label is never empty *)

\* C2: whatever the input, once parsing is over the playlist label is a
\* non-empty string.
C2_LabelNonEmpty == Returned => playlist_name # <<>>

----------------------------------------------------------------------------
(* C3: order by number of distinct matched terms, ties in scan order *)

\* C3: with non-empty search terms the listed files are in descending order
\* of the number of distinct search terms their name contains, and files
\* with the same number keep their discovery order.
C3_DistinctScoreOrder ==
    (Returned /\ variant = "tools" /\ search_terms # <<>>) =>
        \A i, j \in 1..Len(mp3_files) :
            i < j =>
                LET si == Cardinality(MatchedTerms(mp3_files[i], search_terms))
                    sj == Cardinality(MatchedTerms(mp3_files[j], search_terms))
                IN  si > sj \/ (si = sj /\ mp3_files[i].path < mp3_files[j].path)

----------------------------------------------------------------------------
(* C6: a root that is missing or not a directory gives the not-found report *)

\* C6: when the search root does not exist or is not a directory, the call
\* returns the not-found report and no file is enumerated or listed.
C6_NotADirectoryReported ==
    (Returned /\ rootKind # "dir") =>
        /\ response = NotFoundReport
        /\ all_mp3_files = <<>>
        /\ mp3_files = <<>>

----------------------------------------------------------------------------
(* C7: a failed tag read leaves both fields Unknown *)

\* extraction from the tag raises somewhere: opening the container, or
\* taking text[0] of a BPM or genre frame whose text list is empty
TagFails(tag) ==
    \/ ~tag.opens
    \/ tag.TBPM.present /\ tag.TBPM.text = <<>>
    \/ tag.TCON.present /\ tag.TCON.text = <<>>

\* C7: every listed file whose tag extraction fails at any point is rendered
\* with BPM Unknown and genre Unknown, and every listed file has its line.
C7_BothUnknownOnFailure ==
    (Returned /\ mp3_files # <<>>) =>
        /\ Len(LinesOf("meta")) = Len(mp3_files)
        /\ \A i \in 1..Len(mp3_files) :
              TagFails(mp3_files[i].tag) =>
                  /\ LinesOf("meta")[i].bpm = Unknown
                  /\ LinesOf("meta")[i].genre = Unknown

----------------------------------------------------------------------------
(* C4: loose matching *)

\* C4: with non-empty search terms an enumerated file is kept before the
\* cap exactly when its lower-cased name contains at least one lower-cased
\* search word, and every file named in the report contains one.
C4_LooseMatch ==
    (Returned /\ variant = "tools" /\ search_terms # <<>>) =>
        /\ \A f \in Range(all_mp3_files) :
              f \in Range(uncapped) <=> MatchedTerms(f, search_terms) # {}
        /\ Range(mp3_files) \subseteq Range(uncapped)
        /\ Len(LinesOf("track")) = Len(mp3_files)
        /\ \A i \in 1..Len(mp3_files) :
              /\ LinesOf("track")[i].text = mp3_files[i].name
              /\ \E w \in TermSet(search_terms) :
                    Contains(w, Lower(LinesOf("track")[i].text))

\* a search with two words that keeps a file matching only one of them (by
\* lower-casing its name) and drops a file matching none
C4_Witness ==
    /\ Returned /\ variant = "tools"
    /\ Cardinality(TermSet(search_terms)) = 2
    /\ \E f \in Range(all_mp3_files) : f \notin Range(uncapped)
    /\ \E f \in Range(mp3_files) :
          /\ Cardinality(MatchedTerms(f, search_terms)) = 1
          /\ f.name # Lower(f.name)

----------------------------------------------------------------------------
(* C5: the cap of 20 *)

\* C5: the report never lists more than 20 files; its header count, its
\* playlist (or manifest) track count and its per-track blocks all equal
\* the number of listed files; the listed files are the first 20 of the
\* list as it stood after sorting, so no dropped file outranks a kept one.
C5_Cap ==
    Returned =>
        /\ Len(mp3_files) <= MaxResults
        /\ mp3_files = SubSeq(uncapped, 1, Len(mp3_files))
        /\ Len(mp3_files) = MaxResults \/ Len(mp3_files) = Len(uncapped)
        /\ Len(LinesOf("track")) = Len(mp3_files)
        /\ Len(LinesOf("item")) = IF variant = "tools" THEN Len(mp3_files) ELSE 0
        /\ \A ln \in Range(response) :
              ln.kind \in {"found", "found_matching", "playlist", "created"} =>
                  ln.n = Len(mp3_files) /\ ln.n <= MaxResults
        /\ (variant = "tools" /\ search_terms # <<>>) =>
              \A f \in Range(mp3_files) :
                 \A g \in Range(uncapped) \ Range(mp3_files) :
                    relevance_score(f, SearchWords(search_terms))
                        >= relevance_score(g, SearchWords(search_terms))

\* more than 20 files match, a file found late in the scan is kept and an
\* earlier-found file of lower rank is dropped
C5_Witness ==
    /\ Returned /\ variant = "tools" /\ search_terms # <<>>
    /\ Len(uncapped) > MaxResults
    /\ Len(LinesOf("track")) = MaxResults
    /\ \E f \in Range(mp3_files) :
          \E g \in Range(uncapped) \ Range(mp3_files) :
             /\ g.path < f.path
             /\ relevance_score(g, SearchWords(search_terms))
                    < relevance_score(f, SearchWords(search_terms))

----------------------------------------------------------------------------
(* C8: the tool-call wrapper *)

NameChars ==
    Range(UpperChars) \cup Range(LowerChars)
        \cup {"0","1","2","3","4","5","6","7","8","9"}

\* q has the form Name(...): a non-empty name, "(", anything, ")"
IsToolCall(q) ==
    /\ q # <<>> /\ q[Len(q)] = ")"
    /\ \E i \in 2..Len(q) :
          q[i] = "(" /\ \A k \in 1..(i - 1) : q[k] \in NameChars

\* q has a first "(" at i and a last ")" at j with j > i + min
HasBetween(q, min) ==
    \E i, j \in 1..Len(q) :
        /\ q[i] = "(" /\ \A k \in 1..(i - 1) : q[k] # "("
        /\ q[j] = ")" /\ \A k \in (j + 1)..Len(q) : q[k] # ")"
        /\ j > i + min

\* the text between the first "(" and the last ")" of q
Between(q) ==
    LET i == CHOOSE i \in 1..Len(q) : q[i] = "(" /\ \A k \in 1..(i - 1) : q[k] # "("
        j == CHOOSE j \in 1..Len(q) : q[j] = ")" /\ \A k \in (j + 1)..Len(q) : q[k] # ")"
    IN  SubSeq(q, i + 1, j - 1)

\* text without its leading and trailing quote characters
Unquoted(t) ==
    IF \A k \in 1..Len(t) : t[k] \in QuoteChars THEN <<>>
    ELSE LET lo == CHOOSE a \in 1..Len(t) :
                       t[a] \notin QuoteChars /\ \A k \in 1..(a - 1) : t[k] \in QuoteChars
             hi == CHOOSE b \in 1..Len(t) :
                       t[b] \notin QuoteChars /\ \A k \in (b + 1)..Len(t) : t[k] \in QuoteChars
         IN  SubSeq(t, lo, hi)

JazzCall == <<"M","P","3","S","e","a","r","c","h","(","'">> \o JazzPiano \o <<"'",")">>

\* C8 as stated: every query of the form Name(...) is replaced, before
\* parsing, by the text between its first "(" and its last ")" with the
\* surrounding quote characters trimmed.
C8_AnyWrapperStripped ==
    (Returned /\ variant = "tools" /\ IsToolCall(input)) =>
        query = Unquoted(Between(input))

\* C8 amended: a query that contains the literal "MP3Search(" and has at
\* least one character between its first "(" and its last ")" is replaced,
\* before parsing, by that text with the surrounding quote characters
\* trimmed; every other query is parsed as written.  MP3Search('jazz piano')
\* yields the terms "jazz piano", without quote or parenthesis.
C8_ToolWrapperStripped ==
    (Returned /\ variant = "tools") =>
        /\ IF Contains(ToolOpen, input) /\ HasBetween(input, 1)
           THEN query = Unquoted(Between(input))
           ELSE query = input
        /\ input = JazzCall => search_terms = JazzPiano

\* the call MP3Search('jazz piano') has returned with terms "jazz piano"
C8_Witness ==
    /\ Returned /\ variant = "tools"
    /\ input = JazzCall
    /\ query = JazzPiano /\ search_terms = JazzPiano
    /\ \A k \in 1..Len(search_terms) : search_terms[k] \notin QuoteChars \cup {"(", ")"}

----------------------------------------------------------------------------
(* C9: the "search:" prefix *)

\* the search terms the tools.py parser gives for the text t
TermsOf(t) == ParseQuery(CleanQuery(t), now).search_terms

HasSearchPrefix(t) == StartsWith(Lower(t), SearchPrefix)

\* C9 as stated: for every text t, "search: t" and t parse to the same
\* search terms, and parsed search terms never begin with "search:".
C9_PrefixAlwaysStripped ==
    (Returned /\ variant = "tools") =>
        /\ TermsOf(SearchPrefix \o Sp \o input) = search_terms
        /\ ~HasSearchPrefix(search_terms)

\* C9 amended: for every text t without "|" that, after the wrapper
\* clean-up and trimming, does not itself begin with "search:" (in any
\* letter case), "search: t" and t parse to the same search terms, the
\* trimmed t; the prefix is removed once, so the parsed terms of a text
\* without "|" begin with "search:" only when the text carried the prefix
\* twice.
C9_PrefixStrippedOnce ==
    (Returned /\ variant = "tools" /\ ~Contains(Bar, input)) =>
        /\ ~HasSearchPrefix(Strip(query)) =>
              /\ search_terms = Strip(query)
              /\ TermsOf(SearchPrefix \o Sp \o input) = search_terms
              /\ TermsOf(<<"S","E","A","R","C","H",":">> \o input) = search_terms
        /\ HasSearchPrefix(search_terms) =>
              /\ HasSearchPrefix(Strip(query))
              /\ search_terms = Strip(SubSeq(Strip(query), 8, Len(Strip(query))))
        /\ HasSearchPrefix(Strip(query)) =>
              search_terms = Strip(SubSeq(Strip(query), 8, Len(Strip(query))))

\* a query with a capitalised prefix has returned with the prefix removed
C9_Witness ==
    /\ Returned /\ variant = "tools" /\ ~Contains(Bar, input)
    /\ HasSearchPrefix(input) /\ ~StartsWith(input, SearchPrefix)
    /\ search_terms # <<>> /\ ~HasSearchPrefix(search_terms)
    /\ TermsOf(SearchPrefix \o Sp \o search_terms) = search_terms

----------------------------------------------------------------------------
(* C10: ranking monotonicity *)

\* C10: if file A matches a strict superset of the search terms file B
\* matches, A's score is at least B's, A is listed before B, and A is in
\* the capped result whenever B is.
C10_Monotone ==
    (Returned /\ variant = "tools" /\ search_terms # <<>>) =>
        \A A, B \in Range(uncapped) :
            ( /\ MatchedTerms(B, search_terms) \subseteq MatchedTerms(A, search_terms)
              /\ MatchedTerms(B, search_terms) # MatchedTerms(A, search_terms) ) =>
                /\ relevance_score(A, SearchWords(search_terms))
                       >= relevance_score(B, SearchWords(search_terms))
                /\ PosIn(uncapped, A) < PosIn(uncapped, B)
                /\ B \in Range(mp3_files) =>
                      /\ A \in Range(mp3_files)
                      /\ PosIn(mp3_files, A) < PosIn(mp3_files, B)

\* more than 20 files match; B was found before A, A matches strictly more
\* terms, and B is still within the cap
C10_Witness ==
    /\ Returned /\ variant = "tools" /\ search_terms # <<>>
    /\ Len(uncapped) > MaxResults
    /\ \E A, B \in Range(mp3_files) :
          /\ MatchedTerms(B, search_terms) \subseteq MatchedTerms(A, search_terms)
          /\ MatchedTerms(B, search_terms) # MatchedTerms(A, search_terms)
          /\ B.path < A.path

----------------------------------------------------------------------------
(* C11: list-all mode *)

\* C11: when the parsed search terms are empty, the listed files are
\* exactly the first min(20, n) of the n enumerated files, in discovery
\* order, and every enumerated file of the directory is among the n.
C11_ListAll ==
    (Returned /\ variant = "tools" /\ search_terms = <<>> /\ rootKind # "missing") =>
        /\ rootKind = "dir" => all_mp3_files = desktop
        /\ Len(mp3_files) = IF Len(all_mp3_files) < 20 THEN Len(all_mp3_files) ELSE 20
        /\ \A i \in 1..Len(mp3_files) : mp3_files[i] = all_mp3_files[i]
        /\ \A i \in 1..Len(mp3_files) :
              LinesOf("track")[i].text = all_mp3_files[i].name

\* a bare "search:" query over more than 20 files of two different names
\* has returned the first 20
C11_Witness ==
    /\ Returned /\ variant = "tools"
    /\ input = SearchPrefix \o Sp
    /\ search_terms = <<>>
    /\ Len(all_mp3_files) > 20 /\ Len(mp3_files) = 20
    /\ mp3_files[1].name # mp3_files[20].name

----------------------------------------------------------------------------
(* C12: structure of the report *)

\* C12: a report on k > 0 files is, in this order: a header with count k;
\* for i = 1..k the line "i. name" of the i-th listed file followed by its
\* "BPM | Genre" line; the playlist heading with the playlist label and
\* count k; a separator; for i = 1..k the line "i. name" again; a
\* separator.  A report on no file is the no-matches line and the hint.
C12_ReportStructure ==
    (Returned /\ variant = "tools" /\ rootKind # "missing") =>
        LET k == Len(mp3_files)
        IN  IF k = 0
            THEN /\ Len(response) = 2
                 /\ response[1].kind = "no_match" /\ response[1].text = search_terms
                 /\ response[2].kind = "hint"
            ELSE /\ Len(response) = 3 * k + 4
                 /\ response[1].kind \in {"found", "found_matching"}
                 /\ response[1].n = k
                 /\ response[1].kind = "found_matching" => response[1].text = search_terms
                 /\ \A i \in 1..k :
                       /\ response[2 * i].kind = "track"
                       /\ response[2 * i].n = i
                       /\ response[2 * i].text = mp3_files[i].name
                       /\ response[2 * i + 1].kind = "meta"
                       /\ response[2 * i + 1].bpm # "" /\ response[2 * i + 1].genre # ""
                 /\ response[2 * k + 2].kind = "playlist"
                 /\ response[2 * k + 2].text = playlist_name
                 /\ response[2 * k + 2].n = k
                 /\ response[2 * k + 3].kind = "separator"
                 /\ \A i \in 1..k :
                       /\ response[2 * k + 3 + i].kind = "item"
                       /\ response[2 * k + 3 + i].n = response[2 * i].n
                       /\ response[2 * k + 3 + i].text = response[2 * i].text
                 /\ response[3 * k + 4].kind = "separator"

\* a ranked report on three files with a caller-given playlist label, the
\* file found second listed first
C12_Witness ==
    /\ Returned /\ variant = "tools"
    /\ Len(mp3_files) = 3 /\ Len(response) = 13
    /\ search_terms # <<>>
    /\ mp3_files[1].path = 2
    /\ playlist_name # DefaultPlaylistName(now)
    /\ response[8].kind = "playlist" /\ response[8].text = playlist_name

----------------------------------------------------------------------------
(* C13: a failed manifest write keeps the search results *)

\* C13: in main.py the manifest is attempted exactly when at least one file
\* matched; whether the write succeeds or fails, the returned report holds
\* the header and, for every listed file in order, its numbered name and
\* its BPM/Genre line, and ends with the created-playlist confirmation if
\* the write succeeded and with the failure notice if it did not.
C13_WriteFailureKeepsResults ==
    (Returned /\ variant = "main") =>
        LET k == Len(mp3_files)
        IN  /\ manifest # <<>> <=> k > 0
            /\ Len(manifest) <= 1
            /\ k > 0 =>
                  /\ Len(response) = 2 * k + 2
                  /\ response[1].kind = "found_matching" /\ response[1].n = k
                  /\ \A i \in 1..k :
                        /\ response[2 * i].kind = "track"
                        /\ response[2 * i].n = i
                        /\ response[2 * i].text = mp3_files[i].name
                        /\ response[2 * i + 1].kind = "meta"
                  /\ response[2 * k + 2].kind =
                        IF manifest[1].ok THEN "created" ELSE "write_failed"
                  /\ manifest[1].ok =>
                        /\ response[2 * k + 2].text = playlist_name
                        /\ response[2 * k + 2].n = k
                  /\ manifest[1].paths = [i \in 1..k |-> mp3_files[i].path]

\* a search of main.py that matched two files or more has returned after
\* its manifest write failed
C13_Witness ==
    /\ Returned /\ variant = "main"
    /\ Len(mp3_files) >= 2
    /\ manifest # <<>> /\ ~manifest[1].ok
    /\ response[Len(response)].kind = "write_failed"
    /\ Len(LinesOf("track")) = Len(mp3_files)

----------------------------------------------------------------------------
(* C14: the UI wrapper yields exactly one response *)

\* the message contains a routing keyword, in any letter case
HasKeyword(m) ==
    \E kw \in Keywords : \E i \in 1..(Len(m) - Len(kw) + 1) :
        Lower(SubSeq(m, i, i + Len(kw) - 1)) = kw

\* the calls made so far to the agent or the fallback agent
AgentCalls == {i \in 1..Len(trail) : trail[i].who \in {"agent", "fallback_agent"}}

\* while it runs the generator has yielded nothing; when it is done it
\* has yielded exactly once; and once the direct search
\* of a keyword message has returned, no agent is ever called
C14_Inv ==
    /\ ui_pc \in {"start", "direct", "agent", "retry_search", "fallback_agent",
                  "last_search", "done"}
    /\ ui_pc # "done" => yielded = <<>>
    /\ ui_pc = "done" => Len(yielded) = 1
    /\ (HasKeyword(input) /\ trail # <<>> /\ trail[1] = Call("search", TRUE)) =>
          (AgentCalls = {} /\ ui_pc = "done" /\ yielded[1].used = "MP3Search")
    /\ (trail # <<>> /\ trail[1].who = "search") => HasKeyword(input)

\* C14: for every message, and whichever of the direct search, the agent,
\* the second search, the fallback agent and the last-resort search raise,
\* chat_with_agent_stream ends having yielded exactly one response, no
\* exception leaves it, and the agent is not invoked when the message has a
\* routing keyword and the direct search returned.
C14_OneResponse == [](C14_Inv) /\ <>(ui_pc = "done")

\* all five calls were made and all raised, for a message with a keyword:
\* the generator is done with the apology as its one response
C14_Witness ==
    /\ ui_pc = "done"
    /\ HasKeyword(input)
    /\ Len(trail) = 5 /\ \A i \in 1..5 : ~trail[i].ok
    /\ yielded = <<Response(SorryMessage, "")>>

====
